---------------------------- MODULE Spec2Model ----------------------------
(***************************************************************************)
(* Model of scripts/extract-pdf-text.py: the text normalizer              *)
(* (normalize_text) and the extract / index / write pipeline (main).      *)
(*                                                                         *)
(* A Python str is modelled as a sequence of characters; a character is   *)
(* a one-character string, except the code points U+0060, U+0130 and      *)
(* U+0307, which are written by name.                                      *)
(***************************************************************************)
EXTENDS Integers, Sequences, FiniteSets, TLC

(***************************************************************************)
(* Bounds of the model.                                                    *)
(***************************************************************************)
\* longest string the normalizer is driven with exhaustively
MaxLen == 5
\* longest document built from the full set of page cases
MaxPages == 2
\* pages of the long documents, which reach two-digit page numbers
MaxLongPages == 10

(***************************************************************************)
(* Characters.                                                             *)
(***************************************************************************)
\* the printable ASCII characters, code points 32..126, in code point order
Printable ==
 << " ", "!", "\"", "#", "$", "%", "&", "'", "(", ")", "*", "+", ",", "-", ".", "/",
    "0", "1", "2", "3", "4", "5", "6", "7", "8", "9", ":", ";", "<", "=", ">", "?",
    "@", "A", "B", "C", "D", "E", "F", "G", "H", "I", "J", "K", "L", "M", "N", "O",
    "P", "Q", "R", "S", "T", "U", "V", "W", "X", "Y", "Z", "[", "\\", "]", "^", "_",
    "U+0060", "a", "b", "c", "d", "e", "f", "g", "h", "i", "j", "k", "l", "m", "n", "o",
    "p", "q", "r", "s", "t", "u", "v", "w", "x", "y", "z", "{", "|", "}", "~" >>

TAB == "\t"
LF == "\n"
FF == "\f"
CR == "\r"
\* LATIN CAPITAL LETTER I WITH DOT ABOVE: the one character str.lower()
\* turns into two (i followed by COMBINING DOT ABOVE)
IDOT == "U+0130"
CDOT == "U+0307"

Chars == {Printable[k] : k \in DOMAIN Printable} \cup {TAB, LF, FF, CR, IDOT, CDOT}

\* ord(c)
Ord ==
  [c \in Chars |->
     CASE c = TAB  -> 9
       [] c = LF   -> 10
       [] c = FF   -> 12
       [] c = CR   -> 13
       [] c = IDOT -> 304
       [] c = CDOT -> 775
       [] OTHER    -> 31 + (CHOOSE k \in DOMAIN Printable : Printable[k] = c)]

\* c.isspace(): what str.strip() with no argument removes
IsSpace(c) == c \in {" ", TAB, LF, FF, CR}

\* the class [ \t] of the regular expression
IsHorizontal(c) == c \in {" ", TAB}

\* c.lower(), a string of one or two characters
LowerChar ==
  [c \in Chars |->
     IF c = IDOT THEN <<"i", CDOT>>
     ELSE IF Ord[c] \in 65..90 THEN <<Printable[Ord[c] + 32 - 31]>>
     ELSE <<c>>]

(***************************************************************************)
(* str operations.                                                         *)
(***************************************************************************)
Min(a, b) == IF a < b THEN a ELSE b
Max(a, b) == IF a > b THEN a ELSE b

\* the positions of s, in order
Positions(s) == [k \in 1..Len(s) |-> k]

\* the characters of s at the positions at, in that order
CharsAt(s, at) == [j \in 1..Len(at) |-> s[at[j]]]

\* s.replace("\r\n", "\n"): the CR of every CR LF pair goes
replace_crlf(s) ==
  CharsAt(s, SelectSeq(Positions(s),
                       LAMBDA k : ~(s[k] = CR /\ k < Len(s) /\ s[k + 1] = LF)))

\* s.replace(old, new) for single characters
replace_char(s, old, new) == [k \in 1..Len(s) |-> IF s[k] = old THEN new ELSE s[k]]

\* re.sub(r"[ \t]+", " ", s): the first character of a run stays, as a space
sub_horizontal(s) ==
  LET kept == CharsAt(s, SelectSeq(Positions(s),
                   LAMBDA k : ~(IsHorizontal(s[k]) /\ k > 1 /\ IsHorizontal(s[k - 1]))))
  IN  [k \in 1..Len(kept) |-> IF IsHorizontal(kept[k]) THEN " " ELSE kept[k]]

\* mutant: every run of two or more line feeds becomes one
sub_newlines_single(s) ==
  CharsAt(s, SelectSeq(Positions(s), LAMBDA k : ~(s[k] = LF /\ k > 1 /\ s[k - 1] = LF)))

\* re.sub(r"\n{3,}", "\n\n", s): the first two line feeds of a run stay
sub_newlines(s) ==
  CharsAt(s, SelectSeq(Positions(s),
                       LAMBDA k : ~(s[k] = LF /\ k > 2 /\ s[k - 1] = LF /\ s[k - 2] = LF)))

RECURSIVE FirstNonSpace(_, _)
FirstNonSpace(s, k) ==
  IF k <= Len(s) /\ IsSpace(s[k]) THEN FirstNonSpace(s, k + 1) ELSE k

RECURSIVE LastNonSpace(_, _)
LastNonSpace(s, k) ==
  IF k >= 1 /\ IsSpace(s[k]) THEN LastNonSpace(s, k - 1) ELSE k

\* s.lstrip()
lstrip(s) == SubSeq(s, FirstNonSpace(s, 1), Len(s))

\* s.rstrip()
rstrip(s) == SubSeq(s, 1, LastNonSpace(s, Len(s)))

\* mutant: only the end is stripped
strip_end_only(s) == rstrip(s)

\* s.strip()
strip(s) == rstrip(lstrip(s))

RECURSIVE LowerRange(_, _, _)
\* the lower-cased characters of s[lo..hi], one after the other
LowerRange(s, lo, hi) ==
  IF lo > hi THEN <<>>
  ELSE IF lo = hi THEN LowerChar[s[lo]]
  ELSE LET mid == (lo + hi) \div 2
       IN  LowerRange(s, lo, mid) \o LowerRange(s, mid + 1, hi)

\* mutant: no case folding
lower_identity(s) == s

\* s.lower(): character by character; the result is longer than s when s
\* holds U+0130
lower(s) == LowerRange(s, 1, Len(s))

(***************************************************************************)
(* normalize_text                                                          *)
(***************************************************************************)
\* mutant: runs of line feeds are collapsed before CR becomes LF
normalize_text_late_cr(text) ==
  LET t1 == sub_horizontal(sub_newlines(text))
      t2 == replace_char(replace_crlf(t1), CR, LF)
  IN  strip(t2) \o <<LF>>

normalize_text(text) ==
  LET t1 == replace_char(replace_crlf(text), CR, LF)
      t2 == sub_horizontal(t1)
      t3 == sub_newlines(t2)
  IN  strip(t3) \o <<LF>>

(***************************************************************************)
(* Helpers of main: str(i), str.find, slicing, the f-strings, sorted(set)  *)
(***************************************************************************)
\* the page-independent pieces of the two f-strings
PagePrefix == <<"P", "a", "g", "e", " ">>
Colon == <<":", " ">>
MarkerHead == <<LF, LF, "=", "=", "=", " ", "P", "a", "g", "e", " ">>
MarkerTail == <<" ", "=", "=", "=", LF, LF>>

\* width of the snippet window before and after the match
Before == 80
After == 160

\* str(n) for n >= 0: the decimal digits
RECURSIVE IntToStr(_)
IntToStr(n) ==
  IF n < 10 THEN <<Printable[17 + n]>>
  ELSE IntToStr(n \div 10) \o <<Printable[17 + (n % 10)]>>

\* h.find(n): the 0-based offset of the first occurrence, -1 when none
find(h, n) ==
  LET occ == {k \in 0..(Len(h) - Len(n)) : SubSeq(h, k + 1, k + Len(n)) = n}
  IN  IF occ = {} THEN -1 ELSE CHOOSE k \in occ : \A j \in occ : k <= j

\* n in h
contains(h, n) == find(h, n) >= 0

\* s[a:b] for 0 <= a and 0 <= b <= len(s)
Slice(s, a, b) == IF a >= b THEN <<>> ELSE SubSeq(s, a + 1, b)

\* f"\n\n=== Page {i} ===\n\n{page_text}"
Chunk(n, page_text) == MarkerHead \o IntToStr(n) \o MarkerTail \o page_text

\* the snippet of lines 69-72
Snippet(page_text, lowered, term) ==
  LET idx == find(lowered, lower(term))
      start == Max(0, idx - Before)
      end == Min(Len(page_text), idx + After)
  IN  strip(replace_char(Slice(page_text, start, end), LF, " "))

\* mutant: the page number is left out of the hit
Hit_no_page(n, term, snippet) == PagePrefix \o Colon \o term \o Colon \o snippet

\* f"Page {i}: {term}: {snippet}"
Hit(n, term, snippet) == PagePrefix \o IntToStr(n) \o Colon \o term \o Colon \o snippet

\* the hits one page appends, in the order of the term list (lines 65-73)
PageHits(n, page_text, terms) ==
  LET lowered == lower(page_text)
      matching == SelectSeq(terms, LAMBDA t : contains(lowered, lower(t)))
  IN  [k \in 1..Len(matching) |->
         Hit(n, matching[k], Snippet(page_text, lowered, matching[k]))]

RECURSIVE Join(_, _)
\* sep.join(parts)
Join(parts, sep) ==
  IF Len(parts) = 0 THEN <<>>
  ELSE IF Len(parts) = 1 THEN parts[1]
  ELSE parts[1] \o sep \o Join(Tail(parts), sep)

RECURSIVE LessFrom(_, _, _)
LessFrom(a, b, k) ==
  IF k > Len(a) \/ k > Len(b) THEN Len(a) < Len(b)
  ELSE IF a[k] # b[k] THEN Ord[a[k]] < Ord[b[k]]
  ELSE LessFrom(a, b, k + 1)

\* a < b on str: by code point at the first difference, a proper prefix first
StrLess(a, b) == LessFrom(a, b, 1)

RECURSIVE SortSet(_)
SortSet(S) ==
  IF S = {} THEN <<>>
  ELSE LET m == CHOOSE x \in S : \A y \in S : x = y \/ StrLess(x, y)
       IN  <<m>> \o SortSet(S \ {m})

RECURSIVE Dedup(_)
Dedup(hits) ==
  IF hits = <<>> THEN <<>>
  ELSE LET front == SubSeq(hits, 1, Len(hits) - 1)
       IN  IF \E k \in DOMAIN front : front[k] = hits[Len(hits)]
           THEN Dedup(front)
           ELSE Append(Dedup(front), hits[Len(hits)])

\* mutant: duplicates go, the order of insertion stays
sorted_set_unsorted(hits) == Dedup(hits)

\* sorted(set(hits))
sorted_set(hits) == SortSet({hits[k] : k \in DOMAIN hits})

(***************************************************************************)
(* The fixed term list (lines 29-55)                                       *)
(***************************************************************************)
IndexTerms ==
 << <<"A", "u", "t", "o", "m", "a", "t", "i", "o", "n", "E", "l", "e", "m", "e", "n", "t">>,
    <<"A", "u", "t", "o", "m", "a", "t", "i", "o", "n", "P", "a", "t", "t", "e", "r", "n">>,
    <<"I", "n", "v", "o", "k", "e", "P", "a", "t", "t", "e", "r", "n">>,
    <<"V", "a", "l", "u", "e", "P", "a", "t", "t", "e", "r", "n">>,
    <<"S", "e", "l", "e", "c", "t", "i", "o", "n", "P", "a", "t", "t", "e", "r", "n">>,
    <<"T", "e", "x", "t", "P", "a", "t", "t", "e", "r", "n">>,
    <<"T", "r", "a", "n", "s", "f", "o", "r", "m", "P", "a", "t", "t", "e", "r", "n">>,
    <<"W", "i", "n", "d", "o", "w", "P", "a", "t", "t", "e", "r", "n">>,
    <<"A", "u", "t", "o", "m", "a", "t", "i", "o", "n", "E", "v", "e", "n", "t">>,
    <<"A", "u", "t", "o", "m", "a", "t", "i", "o", "n", "P", "r", "o", "p", "e", "r", "t", "y">>,
    <<"A", "u", "t", "o", "m", "a", "t", "i", "o", "n", "F", "o", "c", "u", "s", "C", "h", "a", "n", "g", "e", "d", "E", "v", "e", "n", "t", "H", "a", "n", "d", "l", "e", "r">>,
    <<"S", "t", "r", "u", "c", "t", "u", "r", "e", "C", "h", "a", "n", "g", "e", "d", "E", "v", "e", "n", "t", "H", "a", "n", "d", "l", "e", "r">>,
    <<"A", "u", "t", "o", "m", "a", "t", "i", "o", "n", ".", "A", "d", "d">>,
    <<"A", "u", "t", "o", "m", "a", "t", "i", "o", "n", ".", "R", "e", "m", "o", "v", "e">>,
    <<"T", "r", "e", "e", "W", "a", "l", "k", "e", "r">>,
    <<"C", "o", "n", "d", "i", "t", "i", "o", "n">>,
    <<"P", "r", "o", "p", "e", "r", "t", "y", "C", "o", "n", "d", "i", "t", "i", "o", "n">>,
    <<"A", "n", "d", "C", "o", "n", "d", "i", "t", "i", "o", "n">>,
    <<"O", "r", "C", "o", "n", "d", "i", "t", "i", "o", "n">>,
    <<"C", "a", "c", "h", "e", "R", "e", "q", "u", "e", "s", "t">>,
    <<"B", "o", "u", "n", "d", "i", "n", "g", "R", "e", "c", "t", "a", "n", "g", "l", "e">>,
    <<"F", "r", "o", "m", "H", "a", "n", "d", "l", "e">>,
    <<"F", "r", "o", "m", "P", "o", "i", "n", "t">>,
    <<"E", "l", "e", "m", "e", "n", "t", "F", "r", "o", "m", "H", "a", "n", "d", "l", "e">>,
    <<"E", "l", "e", "m", "e", "n", "t", "F", "r", "o", "m", "P", "o", "i", "n", "t">> >>

(***************************************************************************)
(* State                                                                   *)
(***************************************************************************)
VARIABLES
  pc,           \* position of main: "start" (line 22), "open" (25), "loop" (57),
                \* "write_txt" (75), "write_index" (76), "done", "aborted"; "off"
                \* when only normalize_text is driven
  pdf_exists,   \* pdf_path.exists()
  reader,       \* reader.pages: what extract_text() gives for each page
  i,            \* pages the loop has gone through; the next page is i + 1
  chunks,       \* chunks
  index_hits,   \* index_hits
  index_terms,  \* index_terms
  out_txt,      \* the file at out_txt
  out_index,    \* the file at out_index
  status,       \* "running", "exit 0" or "exit 1"
  norm_pc,      \* driver of normalize_text: "input", "once", "twice"; "off" in main
  norm_in,      \* the argument
  norm_out,     \* normalize_text(norm_in)
  norm_again    \* normalize_text(norm_out)

vars == <<pc, pdf_exists, reader, i, chunks, index_hits, index_terms,
          out_txt, out_index, status, norm_pc, norm_in, norm_out, norm_again>>

mainVars == <<pc, pdf_exists, reader, i, chunks, index_hits, index_terms,
              out_txt, out_index, status>>

normVars == <<norm_pc, norm_in, norm_out, norm_again>>

(***************************************************************************)
(* Inputs                                                                  *)
(***************************************************************************)
Rep(c, n) == [k \in 1..n |-> c]

\* all strings over A of length 0..n
StringsUpTo(A, n) == UNION {[1..m -> A] : m \in 0..n}

\* extract_text() returned a str, returned None, or raised
Text(t) == [kind |-> "text", text |-> t]
NonePage == [kind |-> "none", text |-> <<>>]
RaisePage == [kind |-> "raise", text |-> <<>>]

EmptyPage == Text(<<>>)
BlankPage == Text(<<" ", FF, CR, LF, TAB>>)
NothingPage ==
  Text(<<" ", " ", "n", "o", "t", "h", "i", "n", "g", " ", " ", "o", "f", " ",
         "i", "n", "t", "e", "r", "e", "s", "t", " ", " ">>)
HelloPage ==
  Text(<<"h", "e", "l", "l", "o", " ">> \o IndexTerms[1] \o <<" ", "w", "o", "r", "l", "d">>)
LowercasePage ==
  Text(<<"s", "e", "e", " ", "a", "u", "t", "o", "m", "a", "t", "i", "o", "n",
         "e", "l", "e", "m", "e", "n", "t", " ", "h", "e", "r", "e">>)
\* PropertyCondition holds Condition, and Condition occurs three times
ConditionsPage ==
  Text(IndexTerms[17] \o <<" ", "o", "r", " ">> \o IndexTerms[16] \o <<",", " ">>
       \o IndexTerms[16])
\* more than Before characters before TreeWalker, a line break among them,
\* and more than After characters after it
LongPage ==
  Text(Rep("x", 60) \o <<CR, LF>> \o Rep("y", 60) \o <<" ">> \o IndexTerms[15]
       \o <<" ">> \o Rep("z", 200))
\* FromPoint after a hundred characters that lower() doubles
IdotPage == Text(Rep(IDOT, 100) \o IndexTerms[23])

PageCases == {EmptyPage, NonePage, RaisePage, NothingPage, HelloPage,
              LowercasePage, ConditionsPage, LongPage, IdotPage}

\* long documents: every page is HelloPage, but for at most one page of
\* whitespace
LongDocs ==
  {[k \in 1..MaxLongPages |-> IF k = b THEN BlankPage ELSE HelloPage] : b \in 0..MaxLongPages}

\* the documents PdfReader may give
Docs == UNION {[1..n -> PageCases] : n \in 0..MaxPages} \cup LongDocs

NormAlphabet == {"a", " ", TAB, CR, LF, FF}

NormInputs == StringsUpTo(NormAlphabet, MaxLen) \cup {<<"a", CR, LF, "b", CR, CR, "c">>}

\* a file: absent, or left by an earlier run
Absent == [exists |-> FALSE, data |-> <<>>]
Stale == [exists |-> TRUE, data |-> <<"o", "l", "d", LF>>]
Truncated == [exists |-> TRUE, data |-> <<>>]
Written(data) == [exists |-> TRUE, data |-> data]

(***************************************************************************)
(* main                                                                    *)
(***************************************************************************)
NormIdle ==
  /\ norm_pc = "off"
  /\ norm_in = <<>>
  /\ norm_out = <<>>
  /\ norm_again = <<>>

Init ==
  /\ pc = "start"
  /\ pdf_exists \in BOOLEAN
  /\ reader = <<>>
  /\ i = 0
  /\ chunks = <<>>
  /\ index_hits = <<>>
  /\ index_terms = <<>>
  /\ \E prior \in {Absent, Stale} :
       /\ out_txt = prior
       /\ out_index = prior
  /\ status = "running"
  /\ NormIdle

\* raise SystemExit(...) or an exception nothing catches: the process ends
\* with exit status 1
Abort ==
  /\ pc' = "aborted"
  /\ status' = "exit 1"

\* where the for statement goes after n pages
AfterPage(n, pages) == IF n < Len(pages) THEN "loop" ELSE "write_txt"

\* lines 22-23, the file is not there
MissingInput ==
  /\ pc = "start"
  /\ ~pdf_exists
  /\ Abort
  /\ UNCHANGED <<pdf_exists, reader, i, chunks, index_hits, index_terms,
                 out_txt, out_index, normVars>>

\* line 22, the file is there
InputFound ==
  /\ pc = "start"
  /\ pdf_exists
  /\ pc' = "open"
  /\ UNCHANGED <<pdf_exists, reader, i, chunks, index_hits, index_terms,
                 out_txt, out_index, status, normVars>>

\* mutant: one term is listed twice
OpenReader_dup_term ==
  /\ pc = "open"
  /\ \E doc \in Docs :
       /\ reader' = doc
       /\ pc' = AfterPage(0, doc)
  /\ i' = 0
  /\ chunks' = <<>>
  /\ index_hits' = <<>>
  /\ index_terms' = Append(IndexTerms, IndexTerms[16])
  /\ UNCHANGED <<pdf_exists, out_txt, out_index, status, normVars>>

\* lines 25-55: PdfReader(...) and the three lists
OpenReader ==
  /\ pc = "open"
  /\ \E doc \in Docs :
       /\ reader' = doc
       /\ pc' = AfterPage(0, doc)
  /\ i' = 0
  /\ chunks' = <<>>
  /\ index_hits' = <<>>
  /\ index_terms' = IndexTerms
  /\ UNCHANGED <<pdf_exists, out_txt, out_index, status, normVars>>

\* line 25, PdfReader raises (not a PDF, unreadable)
OpenFails ==
  /\ pc = "open"
  /\ Abort
  /\ UNCHANGED <<pdf_exists, reader, i, chunks, index_hits, index_terms,
                 out_txt, out_index, normVars>>

\* page.extract_text() or ""
Extracted(page) == IF page.kind = "none" THEN <<>> ELSE page.text

\* lines 58-60: nothing but whitespace; continue
SkipPage ==
  /\ pc = "loop"
  /\ reader[i + 1].kind # "raise"
  /\ strip(Extracted(reader[i + 1])) = <<>>
  /\ i' = i + 1
  /\ pc' = AfterPage(i + 1, reader)
  /\ UNCHANGED <<pdf_exists, reader, chunks, index_hits, index_terms,
                 out_txt, out_index, status, normVars>>

\* mutant: pages are numbered by the chunks kept so far
ProcessPage_renumber ==
  /\ pc = "loop"
  /\ reader[i + 1].kind # "raise"
  /\ strip(Extracted(reader[i + 1])) # <<>>
  /\ LET page_text == normalize_text(Extracted(reader[i + 1]))
     IN  /\ chunks' = Append(chunks, Chunk(Len(chunks) + 1, page_text))
         /\ index_hits' = index_hits \o PageHits(Len(chunks) + 1, page_text, index_terms)
  /\ i' = i + 1
  /\ pc' = AfterPage(i + 1, reader)
  /\ UNCHANGED <<pdf_exists, reader, index_terms, out_txt, out_index, status, normVars>>

\* mutant: the text file is written page by page, inside the loop
ProcessPage_streaming ==
  /\ pc = "loop"
  /\ reader[i + 1].kind # "raise"
  /\ strip(Extracted(reader[i + 1])) # <<>>
  /\ LET page_text == normalize_text(Extracted(reader[i + 1]))
     IN  /\ chunks' = Append(chunks, Chunk(i + 1, page_text))
         /\ index_hits' = index_hits \o PageHits(i + 1, page_text, index_terms)
         /\ out_txt' = Written(lstrip(Join(chunks', <<>>)) \o <<LF>>)
  /\ i' = i + 1
  /\ pc' = AfterPage(i + 1, reader)
  /\ UNCHANGED <<pdf_exists, reader, index_terms, out_index, status, normVars>>

\* lines 58-73: a page with text
ProcessPage ==
  /\ pc = "loop"
  /\ reader[i + 1].kind # "raise"
  /\ strip(Extracted(reader[i + 1])) # <<>>
  /\ LET page_text == normalize_text(Extracted(reader[i + 1]))
     IN  /\ chunks' = Append(chunks, Chunk(i + 1, page_text))
         /\ index_hits' = index_hits \o PageHits(i + 1, page_text, index_terms)
  /\ i' = i + 1
  /\ pc' = AfterPage(i + 1, reader)
  /\ UNCHANGED <<pdf_exists, reader, index_terms, out_txt, out_index, status, normVars>>

\* line 58, extract_text() raises
ExtractFails ==
  /\ pc = "loop"
  /\ reader[i + 1].kind = "raise"
  /\ Abort
  /\ UNCHANGED <<pdf_exists, reader, i, chunks, index_hits, index_terms,
                 out_txt, out_index, normVars>>

\* line 75
WriteTxt ==
  /\ pc = "write_txt"
  /\ out_txt' = Written(lstrip(Join(chunks, <<>>)) \o <<LF>>)
  /\ pc' = "write_index"
  /\ UNCHANGED <<pdf_exists, reader, i, chunks, index_hits, index_terms,
                 out_index, status, normVars>>

\* line 75, write_text raises: before the file is opened (no docs/pdf
\* directory) or after open() has truncated it
WriteTxtFails ==
  /\ pc = "write_txt"
  /\ out_txt' \in {out_txt, Truncated}
  /\ Abort
  /\ UNCHANGED <<pdf_exists, reader, i, chunks, index_hits, index_terms,
                 out_index, normVars>>

\* lines 76-80
WriteIndex ==
  /\ pc = "write_index"
  /\ out_index' = Written(Join(sorted_set(index_hits), <<LF>>) \o <<LF>>)
  /\ pc' = "done"
  /\ status' = "exit 0"
  /\ UNCHANGED <<pdf_exists, reader, i, chunks, index_hits, index_terms,
                 out_txt, normVars>>

\* line 76, write_text raises
WriteIndexFails ==
  /\ pc = "write_index"
  /\ out_index' \in {out_index, Truncated}
  /\ Abort
  /\ UNCHANGED <<pdf_exists, reader, i, chunks, index_hits, index_terms,
                 out_txt, normVars>>

Next ==
  \/ MissingInput
  \/ InputFound
  \/ OpenReader
  \/ OpenFails
  \/ SkipPage
  \/ ProcessPage
  \/ ExtractFails
  \/ WriteTxt
  \/ WriteTxtFails
  \/ WriteIndex
  \/ WriteIndexFails

Spec == Init /\ [][Next]_vars

(***************************************************************************)
(* normalize_text on its own: one call, then a second on the result        *)
(***************************************************************************)
MainIdle ==
  /\ pc = "off"
  /\ pdf_exists = FALSE
  /\ reader = <<>>
  /\ i = 0
  /\ chunks = <<>>
  /\ index_hits = <<>>
  /\ index_terms = <<>>
  /\ out_txt = Absent
  /\ out_index = Absent
  /\ status = "running"

InitNorm ==
  /\ MainIdle
  /\ norm_pc = "input"
  /\ norm_in \in NormInputs
  /\ norm_out = <<>>
  /\ norm_again = <<>>

NormCall ==
  /\ norm_pc = "input"
  /\ norm_out' = normalize_text(norm_in)
  /\ norm_pc' = "once"
  /\ UNCHANGED <<norm_in, norm_again, mainVars>>

NormAgain ==
  /\ norm_pc = "once"
  /\ norm_again' = normalize_text(norm_out)
  /\ norm_pc' = "twice"
  /\ UNCHANGED <<norm_in, norm_out, mainVars>>

NextNorm ==
  \/ NormCall
  \/ NormAgain

SpecNorm == InitNorm /\ [][NextNorm]_vars

(***************************************************************************)
(* Properties of normalize_text (checked under SpecNorm)                   *)
(***************************************************************************)
\* C1: normalize_text is idempotent: normalizing the result of a
\* normalization gives that result again.
C1_Idempotent == norm_pc = "twice" => norm_again = norm_out

\* the first call changed the text by more than the final line feed
C1_Witness ==
  /\ norm_pc = "twice"
  /\ norm_out # norm_in \o <<LF>>
  /\ Len(norm_out) > 1

\* C2: the result ends in exactly one line feed, with no whitespace right
\* before it and none at the start of what precedes it; the empty string and
\* whitespace-only strings give the single line feed.
C2_Shape ==
  norm_pc # "input" =>
    LET n == Len(norm_out)
    IN  /\ n >= 1
        /\ norm_out[n] = LF
        /\ n > 1 => ~IsSpace(norm_out[n - 1]) /\ ~IsSpace(norm_out[1])
        /\ (\A k \in 1..Len(norm_in) : IsSpace(norm_in[k])) => norm_out = <<LF>>

\* an input with whitespace at both ends and other text between
C2_Witness ==
  /\ norm_pc = "once"
  /\ Len(norm_in) >= 3
  /\ IsSpace(norm_in[1])
  /\ IsSpace(norm_in[Len(norm_in)])
  /\ Len(norm_out) > 1

\* the line breaks of s, read left to right: CR LF, a lone CR and LF are one
\* break each; kept while fewer than two breaks precede in the run
RECURSIVE CapBreaks(_, _, _)
CapBreaks(s, k, run) ==
  IF k > Len(s) THEN <<>>
  ELSE IF s[k] = CR /\ k < Len(s) /\ s[k + 1] = LF
       THEN (IF run < 2 THEN <<LF>> ELSE <<>>) \o CapBreaks(s, k + 2, run + 1)
  ELSE IF s[k] \in {CR, LF}
       THEN (IF run < 2 THEN <<LF>> ELSE <<>>) \o CapBreaks(s, k + 1, run + 1)
  ELSE <<s[k]>> \o CapBreaks(s, k + 1, 0)

\* C3: CR LF and lone CR become one line feed each, then runs of three or
\* more line feeds become two: the result holds no CR and no three line
\* feeds in a row, a run of two breaks stays two, and "a\r\nb\r\rc" gives
\* "a\nb\n\nc\n".
C3_LineBreaks ==
  norm_pc # "input" =>
    /\ \A k \in 1..Len(norm_out) : norm_out[k] # CR
    /\ \A k \in 1..(Len(norm_out) - 2) :
         ~(norm_out[k] = LF /\ norm_out[k + 1] = LF /\ norm_out[k + 2] = LF)
    /\ (\A k \in 1..Len(norm_in) : norm_in[k] \notin {" ", TAB, FF})
         => norm_out = strip(CapBreaks(norm_in, 1, 0)) \o <<LF>>
    /\ norm_in = <<"a", CR, LF, "b", CR, CR, "c">>
         => norm_out = <<"a", LF, "b", LF, LF, "c", LF>>

\* the example of the claim, normalized
C3_Witness ==
  /\ norm_pc = "once"
  /\ norm_in = <<"a", CR, LF, "b", CR, CR, "c">>
  /\ norm_out = <<"a", LF, "b", LF, LF, "c", LF>>

(***************************************************************************)
(* Properties of main (checked under Spec)                                 *)
(***************************************************************************)
\* the page's extracted text has a character that is not whitespace
HasText(page) ==
  page.kind = "text" /\ \E k \in 1..Len(page.text) : ~IsSpace(page.text[k])

HasPrefix(s, p) == Len(s) >= Len(p) /\ SubSeq(s, 1, Len(p)) = p

IsDigit(c) == Ord[c] \in 48..57

RECURSIVE ParseInt(_)
ParseInt(s) ==
  IF s = <<>> THEN 0
  ELSE 10 * ParseInt(SubSeq(s, 1, Len(s) - 1)) + (Ord[s[Len(s)]] - 48)

\* the j-th smallest member of a set of numbers
Nth(S, j) == CHOOSE k \in S : Cardinality({m \in S : m <= k}) = j

\* length of the run of digits of s that starts at position k
DigitRun(s, k) ==
  CHOOSE n \in 0..(Len(s) - k + 1) :
    /\ \A j \in 0..(n - 1) : IsDigit(s[k + j])
    /\ k + n > Len(s) \/ ~IsDigit(s[k + n])

\* "=== Page N ===\n\n" stands in s at position k
IsMarkerAt(s, k) ==
  /\ k + 8 <= Len(s)
  /\ SubSeq(s, k, k + 8) = SubSeq(MarkerHead, 3, 11)
  /\ LET n == DigitRun(s, k + 9)
     IN  /\ n >= 1
         /\ k + 9 + n + 5 <= Len(s)
         /\ SubSeq(s, k + 9 + n, k + 9 + n + 5) = MarkerTail

\* the N of the marker at position k
OrdinalAt(s, k) == ParseInt(SubSeq(s, k + 9, k + 8 + DigitRun(s, k + 9)))

\* the ordinals of the markers of s, in the order they stand in s
MarkersIn(s) ==
  LET pos == {k \in 1..Len(s) : IsMarkerAt(s, k)}
  IN  [j \in 1..Cardinality(pos) |-> OrdinalAt(s, Nth(pos, j))]

\* the pages among the first n that have text
TextPages(n) == {p \in 1..n : HasText(reader[p])}

\* C4: the markers are exactly those of the pages that have text, each with
\* the page's own 1-based position, in strictly increasing order, in the
\* chunk list at every step of the loop and in the text file once written.
C4_Markers ==
  pc \in {"loop", "write_txt", "write_index", "done", "aborted"} =>
    LET ords == [k \in 1..Len(chunks) |-> OrdinalAt(chunks[k], 3)]
    IN  /\ \A k \in 1..Len(chunks) :
             /\ SubSeq(chunks[k], 1, 2) = <<LF, LF>>
             /\ IsMarkerAt(chunks[k], 3)
        /\ \A k \in 1..(Len(chunks) - 1) : ords[k] < ords[k + 1]
        /\ {ords[k] : k \in 1..Len(chunks)} = TextPages(i)
        /\ pc \in {"write_index", "done"} => MarkersIn(out_txt.data) = ords

\* a page without text was skipped and a later page was kept
C4_Witness ==
  /\ pc = "done"
  /\ \E p \in 1..i : \E q \in 1..i :
       /\ p < q
       /\ ~HasText(reader[p])
       /\ HasText(reader[q])
       /\ \E k \in 1..Len(chunks) : OrdinalAt(chunks[k], 3) = q

\* the two characters are the same letter, whatever their case
SameLetter(a, b) == LowerChar[a] = LowerChar[b]

\* term stands in text at 0-based offset k, case aside
OccursAt(term, text, k) ==
  /\ k + Len(term) <= Len(text)
  /\ \A j \in 1..Len(term) : SameLetter(text[k + j], term[j])

OccursCI(term, text) == \E k \in 0..Len(text) : OccursAt(term, text, k)

\* "Page p: term: "
HitPrefix(p, term) == PagePrefix \o IntToStr(p) \o Colon \o term \o Colon

\* where the hits of page p and term stand in the hit list
HitsFor(p, term) ==
  {k \in DOMAIN index_hits : HasPrefix(index_hits[k], HitPrefix(p, term))}

\* the loop has gone through every page and nothing is written yet
LoopDone == pc = "write_txt"

\* C5: the hit list holds exactly one hit for a page and a term when the
\* page has text and the term occurs in its normalized text, case aside, and
\* none otherwise; there is no other hit.
C5_OneHitPerMatch ==
  LoopDone =>
    /\ \A p \in 1..i :
         LET text == normalize_text(Extracted(reader[p]))
         IN  \A t \in DOMAIN index_terms :
               Cardinality(HitsFor(p, index_terms[t])) =
                 IF HasText(reader[p]) /\ OccursCI(index_terms[t], text) THEN 1 ELSE 0
    /\ \A k \in DOMAIN index_hits :
         \E p \in 1..i : \E t \in DOMAIN index_terms : k \in HitsFor(p, index_terms[t])

\* a page with Condition three times and PropertyCondition once, and a page
\* with a term in lower case only
C5_Witness ==
  /\ LoopDone
  /\ \E p \in 1..i : \E q \in 1..i :
       /\ reader[p] = ConditionsPage
       /\ reader[q] = LowercasePage
       /\ Cardinality(HitsFor(p, IndexTerms[16])) = 1
       /\ Cardinality(HitsFor(p, IndexTerms[17])) = 1
       /\ Cardinality(HitsFor(q, IndexTerms[1])) = 1
  /\ Len(index_hits) = 3

\* the lines of an index file: what stands before the trailing line feed,
\* cut at the line feeds; no line when nothing stands before it
IndexLines(data) ==
  LET body == SubSeq(data, 1, Len(data) - 1)
      cuts == {0, Len(body) + 1} \cup {k \in 1..Len(body) : body[k] = LF}
  IN  IF body = <<>> THEN <<>>
      ELSE [j \in 1..(Cardinality(cuts) - 1) |->
              SubSeq(body, Nth(cuts, j) + 1, Nth(cuts, j + 1) - 1)]

\* a stands before b in the order of the code points
LexBefore(a, b) ==
  \E k \in 1..(Min(Len(a), Len(b)) + 1) :
    /\ \A j \in 1..(k - 1) : a[j] = b[j]
    /\ \/ k = Len(a) + 1 /\ k <= Len(b)
       \/ k <= Len(a) /\ k <= Len(b) /\ Ord[a[k]] < Ord[b[k]]

\* C6: the index file holds the distinct hit strings, one per line, none
\* twice, in ascending order of the code points of the whole string, and
\* ends with one line feed; no hit string holds a line feed.
C6_IndexFile ==
  /\ \A k \in DOMAIN index_hits : \A j \in 1..Len(index_hits[k]) : index_hits[k][j] # LF
  /\ pc = "done" =>
       LET data == out_index.data
           lines == IndexLines(data)
       IN  /\ out_index.exists
           /\ Len(data) >= 1
           /\ data[Len(data)] = LF
           /\ {lines[k] : k \in DOMAIN lines} = {index_hits[k] : k \in DOMAIN index_hits}
           /\ \A k \in 1..(Len(lines) - 1) : LexBefore(lines[k], lines[k + 1])

\* the hit of page 10 stands before the hit of page 2
C6_Witness ==
  /\ pc = "done"
  /\ LET lines == IndexLines(out_index.data)
     IN  \E j \in DOMAIN lines : \E k \in DOMAIN lines :
           /\ j < k
           /\ HasPrefix(lines[j], PagePrefix \o <<"1", "0", ":">>)
           /\ HasPrefix(lines[k], PagePrefix \o <<"2", ":">>)

\* C7: no output file changes unless the input exists and the loop has gone
\* through every page; a missing input ends the run with a non-zero status
\* before PdfReader is called, and a failed extraction ends it with both
\* files as they were.
C7_WritesOnlyAfterLoop ==
  /\ [][(out_txt' # out_txt \/ out_index' # out_index) =>
          /\ pdf_exists
          /\ pc \in {"write_txt", "write_index"}
          /\ i = Len(reader)
          /\ \A p \in 1..Len(reader) : reader[p].kind # "raise"]_vars
  /\ [](~pdf_exists /\ pc # "start" =>
          /\ pc = "aborted"
          /\ status = "exit 1"
          /\ index_terms = <<>>
          /\ reader = <<>>)
  /\ [][(pc = "loop" /\ reader[i + 1].kind = "raise") =>
          /\ pc' = "aborted"
          /\ status' = "exit 1"
          /\ out_txt' = out_txt
          /\ out_index' = out_index]_vars

\* extraction failed after a page had been collected, and the files of an
\* earlier run are untouched
C7_Witness ==
  /\ pc = "aborted"
  /\ i >= 1
  /\ i < Len(reader)
  /\ reader[i + 1].kind = "raise"
  /\ Len(chunks) >= 1
  /\ out_txt = Stale
  /\ out_index = Stale

\* the terms of the list are pairwise distinct
Distinct(terms) ==
  \A j \in DOMAIN terms : \A k \in DOMAIN terms : j # k => terms[j] # terms[k]

\* C8 as stated: the term list has exactly 27 entries, pairwise distinct,
\* and is the same list for every page.
C8_TwentySevenTerms ==
  pc \in {"loop", "write_txt", "write_index", "done"} =>
    /\ Len(index_terms) = 27
    /\ Distinct(index_terms)

\* C8, amended: the term list has exactly 25 entries, pairwise distinct,
\* and is the same list for every page.
C8_TwentyFiveTerms ==
  /\ [](pc \in {"loop", "write_txt", "write_index", "done"} =>
          /\ Len(index_terms) = 25
          /\ Distinct(index_terms))
  /\ [][(pc \in {"loop", "write_txt", "write_index"}) => (index_terms' = index_terms)]_vars

\* the list has been used for two pages
C8_Witness ==
  /\ pc = "done"
  /\ i >= 2
  /\ Len(index_hits) >= 2
  /\ Len(index_terms) = 25

\* the 0-based offset of the first occurrence of term in text, case aside
FirstOffset(term, text) ==
  CHOOSE k \in 0..Len(text) :
    /\ OccursAt(term, text, k)
    /\ \A j \in 0..(k - 1) : ~OccursAt(term, text, j)

\* C9: the snippet of a hit is the normalized page text from 80 characters
\* before the first occurrence of the term, case aside, to 160 after it,
\* the ends kept inside the text, with line feeds made spaces and the
\* whitespace at both ends removed; it is at most 240 characters long and
\* holds the occurrence of the term.
C9_SnippetAroundTerm ==
  LoopDone =>
    \A p \in 1..i :
      LET text == normalize_text(Extracted(reader[p]))
      IN  \A t \in DOMAIN index_terms : \A k \in HitsFor(p, index_terms[t]) :
            LET term == index_terms[t]
                snippet == SubSeq(index_hits[k], Len(HitPrefix(p, term)) + 1, Len(index_hits[k]))
                idx == FirstOffset(term, text)
                window == Slice(text, Max(0, idx - Before), Min(Len(text), idx + After))
            IN  /\ snippet = strip(replace_char(window, LF, " "))
                /\ Len(snippet) <= Before + After
                /\ OccursCI(term, snippet)

\* the pairs of page p and a term that occurs in its normalized text
MatchesOf(p) ==
  LET text == normalize_text(Extracted(reader[p]))
  IN  {<<p, t>> : t \in {t \in DOMAIN index_terms :
                           HasText(reader[p]) /\ OccursCI(index_terms[t], text)}}

\* C10: the hit list never holds a string twice, so removing duplicates
\* removes nothing: the index file has as many lines as there are pairs of
\* a page and a term that match.
C10_NoDuplicateHits ==
  /\ \A j \in DOMAIN index_hits : \A k \in DOMAIN index_hits :
       j # k => index_hits[j] # index_hits[k]
  /\ pc = "done" => Len(IndexLines(out_index.data)) = Len(index_hits)
  /\ LoopDone => Len(index_hits) = Cardinality(UNION {MatchesOf(p) : p \in 1..i})

\* two pages with the same text gave a hit each for the same term
C10_Witness ==
  /\ pc = "done"
  /\ \E p \in 1..i : \E q \in 1..i :
       /\ p # q
       /\ reader[p] = HelloPage
       /\ reader[q] = HelloPage
  /\ Len(index_hits) >= 2

====
